---- MODULE Spec2Model ----
(***************************************************************************)
(* A model of the pixietaleslab book pipeline (src/book_generator.py) and  *)
(* of its request layer (src/api_server.py).                               *)
(*                                                                         *)
(* Text is a sequence of atoms.  An atom is a one-character string, or a   *)
(* run of characters of a literal of the source (a template, a default     *)
(* value) that the code only copies.  A literal that reaches the story is  *)
(* cut at every white-space character, so that no atom of a story or of a  *)
(* scene holds white space: str.split and str.strip see such an atom as a  *)
(* run of non-blank characters.  The literals of the illustration prompts  *)
(* (the style lines, the generic description), which are never split, are  *)
(* one atom each.  str.lower maps the one-character atoms; the longer      *)
(* atoms it meets (the default animals) are lower-case already.  Python's  *)
(* None and a missing dictionary key are the two reserved one-atom texts   *)
(* None and Absent.                                                        *)
(***************************************************************************)
EXTENDS Integers, Sequences, FiniteSets, TLC

VARIABLES
    env,        \* the process environment: "ok", "noproject" or "noauth"
    reportlab,  \* whether the reportlab package can be imported
    pc,         \* the stage BookCreationWorkflow.run is about to run
    raised,     \* the exception that left the run, or NoExc
    params,     \* the caller's parameter dictionary
    processed,  \* UserInputAgent.run's result
    setting_from, \* the branch of UserInputAgent.run that set the setting
    story,      \* StoryGeneratorAgent.run's result
    memory,     \* the memory dictionary: a function on the keys it holds
    elements,   \* StoryElementsAgent.run's result
    elem_call,  \* the outcome of the remote call of StoryElementsAgent.run
    paras,      \* the paragraphs a story under test was joined from
    desc_calls, \* the outcome of the remote prompt call of each scene
    contexts,   \* the context block sent to PromptExampleAgent for each scene
    prompts,    \* CoherenceAgent.run's result
    images,     \* the list IllustrationGeneratorAgent.run builds and returns
    ig_i,       \* the index i of the loop over the prompts
    ig_attempt, \* the attempt (0 or 1) about to be made for prompt i
    ig_hist,    \* per prompt begun, the requests' outcomes and the sleeps
    tmpfiles,   \* the files of tempfile.gettempdir(): name -> content
    artifact,   \* the artifact dictionary: a function on the keys it holds
    pages,      \* the pages of the canvas BookAssemblerAgent.run draws
    sessions,   \* the "sessions" collection: session id -> document
    jobs,       \* the background tasks added by generate_book, in order
    gb,         \* the generate_book call in progress, if any
    blobs,      \* the objects of the bucket: path -> content
    response    \* the last request answered: the handler, the session id
                \* it was called with (or created) and the value returned

pipeVars == <<env, reportlab, pc, raised, params, processed, setting_from,
              story, memory, elements, elem_call, paras, desc_calls, contexts,
              prompts>>
illusVars == <<images, ig_i, ig_attempt, ig_hist, tmpfiles, artifact>>
apiVars == <<sessions, jobs, gb, blobs, response>>
vars == <<pipeVars, illusVars, pages, apiVars>>

------------------------------------------------------------------------------
(* Values and text helpers                                                 *)

None == <<"<None>">>
Absent == <<"<absent>">>
NoExc == [by |-> "", exc |-> ""]

Truthy(v) == v # None /\ v # Absent /\ v # <<>>

\* str(v) inside an f-string or str.format
Fmt(v) == IF v = None THEN <<"None">> ELSE v

\* dict.get(key) and dict.get(key, default) on a dictionary whose missing
\* keys hold Absent
Get(d, key) == IF d[key] = Absent THEN None ELSE d[key]
GetOr(d, key, default) == IF d[key] = Absent THEN default ELSE d[key]

Upper == {"A","B","C","D","E","F","G","H","I","J","K","L","M",
          "N","O","P","Q","R","S","T","U","V","W","X","Y","Z"}
Lowers == {"a","b","c","d","e","f","g","h","i","j","k","l","m",
           "n","o","p","q","r","s","t","u","v","w","x","y","z"}
Digits == {"0","1","2","3","4","5","6","7","8","9"}

ToLower ==
    ("A" :> "a") @@ ("B" :> "b") @@ ("C" :> "c") @@ ("D" :> "d") @@
    ("E" :> "e") @@ ("F" :> "f") @@ ("G" :> "g") @@ ("H" :> "h") @@
    ("I" :> "i") @@ ("J" :> "j") @@ ("K" :> "k") @@ ("L" :> "l") @@
    ("M" :> "m") @@ ("N" :> "n") @@ ("O" :> "o") @@ ("P" :> "p") @@
    ("Q" :> "q") @@ ("R" :> "r") @@ ("S" :> "s") @@ ("T" :> "t") @@
    ("U" :> "u") @@ ("V" :> "v") @@ ("W" :> "w") @@ ("X" :> "x") @@
    ("Y" :> "y") @@ ("Z" :> "z")

LowerChar(c) == IF c \in Upper THEN ToLower[c] ELSE c

\* str.lower()
Lower(s) == [k \in 1..Len(s) |-> LowerChar(s[k])]

IsLetter(c) == c \in Upper \cup Lowers
IsWordChar(c) == c \in Upper \cup Lowers \cup Digits \cup {"_"}
IsSpace(c) == c \in {" ", "\n", "\t", "\r"}

RECURSIVE Concat(_)
Concat(ss) == IF ss = <<>> THEN <<>> ELSE Head(ss) \o Concat(Tail(ss))

\* sub in s
Contains(s, sub) ==
    \E k \in 0..(Len(s) - Len(sub)) : SubSeq(s, k + 1, k + Len(sub)) = sub

RECURSIVE LStrip(_)
LStrip(s) == IF s # <<>> /\ IsSpace(Head(s)) THEN LStrip(Tail(s)) ELSE s

RECURSIVE RStrip(_)
RStrip(s) ==
    IF s # <<>> /\ IsSpace(s[Len(s)]) THEN RStrip(SubSeq(s, 1, Len(s) - 1)) ELSE s

\* str.strip()
Strip(s) == RStrip(LStrip(s))

------------------------------------------------------------------------------
(* The setting pattern  \b(in|at|on) the [A-Za-z ]+  with re.IGNORECASE    *)

InClass(c) == IsLetter(c) \/ c = " "

\* the end of the longest run of [A-Za-z ] that holds position p
RECURSIVE RunEnd(_, _)
RunEnd(s, p) == IF p < Len(s) /\ InClass(s[p + 1]) THEN RunEnd(s, p + 1) ELSE p

\* the pattern matches at position p of s
MatchAt(s, p) ==
    /\ p + 7 <= Len(s)
    /\ (p = 1 \/ ~IsWordChar(s[p - 1]))
    /\ Lower(SubSeq(s, p, p + 1)) \in {<<"i","n">>, <<"a","t">>, <<"o","n">>}
    /\ Lower(SubSeq(s, p + 2, p + 6)) = <<" ","t","h","e"," ">>
    /\ InClass(s[p + 7])

MatchEnd(s, p) == RunEnd(s, p + 7)

\* re.search: the leftmost position where the pattern matches, or 0
FirstMatch(s) ==
    IF \E p \in 1..Len(s) : MatchAt(s, p)
    THEN CHOOSE p \in 1..Len(s) :
            MatchAt(s, p) /\ \A q \in 1..(p - 1) : ~MatchAt(s, q)
    ELSE 0

\* re.sub(pattern, "", s): every non-overlapping match removed, left to right
RECURSIVE SubFrom(_, _)
SubFrom(s, p) ==
    IF p > Len(s) THEN <<>>
    ELSE IF MatchAt(s, p) THEN SubFrom(s, MatchEnd(s, p) + 1)
    ELSE <<s[p]>> \o SubFrom(s, p + 1)

ReSubSetting(s) == SubFrom(s, 1)

\* setting_match.group(0)[3:].strip()
SettingFromMatch(s) ==
    LET p == FirstMatch(s)
        g == SubSeq(s, p, MatchEnd(s, p))
    IN Strip(SubSeq(g, 4, Len(g)))

------------------------------------------------------------------------------
(* UserInputAgent                                                          *)

DEFAULTS == [
    character_name |-> {<<"Barnaby">>, <<"Luna">>, <<"Max">>},
    animal |-> {<<"rabbit">>, <<"fox">>, <<"dog">>, <<"cat">>, <<"bear">>},
    setting |-> {<<"Enchanted", " ", "forest">>, <<"Magical", " ", "kingdom">>,
                 <<"Sunny", " ", "meadow">>},
    gender |-> {<<"m","a","l","e">>, <<"f","e","m","a","l","e">>},
    age |-> {<<"3-5">>}]

\* one outcome of the random.choice calls of a run
Choices == [character_name : DEFAULTS.character_name, animal : DEFAULTS.animal,
            gender : DEFAULTS.gender, age : DEFAULTS.age,
            setting : DEFAULTS.setting]

\* the four fields of the loop over ["character_name", "animal", "gender", "age"]
ResolveField(p, rnd, key) ==
    IF p.randomize_all THEN rnd[key] ELSE GetOr(p, key, rnd[key])

\* ResolveSetting with the two first branches swapped: a phrase of
\* custom_elements is looked for before the explicit setting
ResolveSetting_CustomFirst(p, rnd) ==
    LET custom_elements == Get(p, "custom_elements")
        user_setting == Get(p, "setting")
    IN  IF Truthy(custom_elements) /\ FirstMatch(custom_elements) # 0
        THEN [setting |-> SettingFromMatch(custom_elements),
              custom_elements |-> custom_elements,
              from |-> "custom"]
        ELSE IF Truthy(user_setting)
        THEN [setting |-> user_setting,
              custom_elements |->
                  IF Truthy(custom_elements) THEN custom_elements ELSE None,
              from |-> "explicit"]
        ELSE [setting |-> rnd.setting,
              custom_elements |->
                  IF Truthy(custom_elements) THEN custom_elements ELSE Absent,
              from |-> "random"]

\* the setting and custom_elements fields
ResolveSetting(p, rnd) ==
    LET custom_elements == Get(p, "custom_elements")
        user_setting == Get(p, "setting")
    IN  IF Truthy(user_setting)
        THEN [setting |-> user_setting,
              custom_elements |->
                  IF Truthy(custom_elements)
                  THEN LET cleaned == Strip(ReSubSetting(custom_elements))
                       IN IF cleaned = <<>> THEN None ELSE cleaned
                  ELSE None,
              from |-> "explicit"]
        ELSE IF Truthy(custom_elements)
        THEN IF FirstMatch(custom_elements) # 0
             THEN [setting |-> SettingFromMatch(custom_elements),
                   custom_elements |-> custom_elements,
                   from |-> "custom"]
             ELSE [setting |-> rnd.setting,
                   custom_elements |-> custom_elements,
                   from |-> "random"]
        ELSE IF p.randomize_all
             THEN [setting |-> rnd.setting, custom_elements |-> Absent,
                   from |-> "random"]
             ELSE [setting |-> GetOr(p, "setting", rnd.setting),
                   custom_elements |-> Absent,
                   from |-> IF p.setting = Absent THEN "random" ELSE "given"]

Pronouns(gender) ==
    IF Lower(gender) = <<"m","a","l","e">>
    THEN [pronoun_subject |-> <<"he">>, pronoun_object |-> <<"him">>,
          pronoun_possessive |-> <<"his">>]
    ELSE [pronoun_subject |-> <<"she">>, pronoun_object |-> <<"her">>,
          pronoun_possessive |-> <<"her">>]

\* the record UserInputAgent.run builds before the pronouns
Resolved(p, rnd) ==
    LET s == ResolveSetting(p, rnd)
    IN [character_name |-> ResolveField(p, rnd, "character_name"),
        animal |-> ResolveField(p, rnd, "animal"),
        gender |-> ResolveField(p, rnd, "gender"),
        age |-> ResolveField(p, rnd, "age"),
        voice |-> <<"female">>,
        length |-> <<"short">>,
        setting |-> s.setting,
        custom_elements |-> s.custom_elements]

\* processed["gender"].lower() raises AttributeError on None
ResolverRaises(p, rnd) == Resolved(p, rnd).gender = None

UserInputAgentRun(p, rnd) ==
    LET r == Resolved(p, rnd)
        pr == Pronouns(r.gender)
    IN [character_name |-> r.character_name, animal |-> r.animal,
        gender |-> r.gender, age |-> r.age, voice |-> r.voice,
        length |-> r.length, setting |-> r.setting,
        custom_elements |-> r.custom_elements,
        pronoun_subject |-> pr.pronoun_subject,
        pronoun_object |-> pr.pronoun_object,
        pronoun_possessive |-> pr.pronoun_possessive]

------------------------------------------------------------------------------
(* The streaming text call shared by the text stages                       *)

\* One outcome of  requests.post / raise_for_status / iter_lines /
\* json.loads / the loop over candidates and parts : "timeout" and "http"
\* raise inside the stage's try block ; "badjson" leaves response_json = [] ;
\* "parts" yields the text parts of the candidates, in order.
TextCall(kind, parts) == [kind |-> kind, parts |-> parts]

\* no call made yet
NoCall == TextCall("none", <<>>)

\* os.environ["GOOGLE_CLOUD_PROJECT"], google.auth.default and creds.refresh
\* raise when the project or the credentials are missing
ConfigRaises(e) == e # "ok"

\* the text the loop over response_json accumulates, or Absent when the
\* call raised before it
Accumulated(e, call) ==
    IF ConfigRaises(e) \/ call.kind \in {"timeout", "http"} THEN Absent
    ELSE IF call.kind = "badjson" THEN <<>>
    ELSE Concat(call.parts)

------------------------------------------------------------------------------
(* StoryGeneratorAgent                                                     *)

MoralLesson == <<"a", " ", "moral", " ", "lesson">>
MockTail == <<".", " ", "(mock", " ", "story)">>

\* the mock story of the except branch
MockStory(p) ==
    <<"Once", " ", "upon", " ", "a", " ", "time", " ", "in", " ", "the", " ">>
    \o Fmt(p.setting) \o <<",", " ", "there", " ", "was", " ">>
    \o Lower(p.animal)
    \o <<".", " ", "The", " ", "tale", " ", "teaches", " ", "us:", " ">>
    \o Fmt(GetOr(p, "custom_elements", MoralLesson))
    \o MockTail

\* the remote story is empty or the call raised: the except branch runs
StoryFallsBack(e, call) ==
    LET acc == Accumulated(e, call) IN acc = Absent \/ acc = <<>>

\* params['animal'].lower() raises AttributeError inside the except branch
StoryRaises(p, e, call) == StoryFallsBack(e, call) /\ p.animal = None

StoryGeneratorAgentRun(p, e, call) ==
    IF StoryFallsBack(e, call) THEN MockStory(p) ELSE Accumulated(e, call)

------------------------------------------------------------------------------
(* StoryElementsAgent                                                      *)

\* What json.loads makes of a member of an object: the members a response
\* is built from are literals of this table.
MemberKey(m) ==
    IF m \in {"\"character\": \"Bo\"", "\"character\": \"\"",
              "\"character\": null"} THEN "character"
    ELSE IF m \in {"\"setting\": \"Sea\"", "\"setting\": \"Hill\""} THEN "setting"
    ELSE "other"

MemberValue(m) ==
    IF m = "\"character\": \"Bo\"" THEN <<"B","o">>
    ELSE IF m = "\"character\": \"\"" THEN <<>>
    ELSE IF m = "\"character\": null" THEN None
    ELSE IF m = "\"setting\": \"Sea\"" THEN <<"S","e","a">>
    ELSE IF m = "\"setting\": \"Hill\"" THEN <<"H","i","l","l">>
    ELSE <<"x">>

Members == {"\"character\": \"Bo\"", "\"character\": \"\"",
            "\"character\": null", "\"setting\": \"Sea\"",
            "\"setting\": \"Hill\"", "\"note\": \"x\""}

\* t is  member (, member)*
RECURSIVE IsMemberList(_)
IsMemberList(t) ==
    /\ t # <<>>
    /\ Head(t) \in Members
    /\ \/ Len(t) = 1
       \/ Len(t) >= 3 /\ t[2] = "," /\ IsMemberList(SubSeq(t, 3, Len(t)))

\* json.loads accepts t as an object
JsonObjectOk(t) ==
    /\ Len(t) >= 2
    /\ t[1] = "{" /\ t[Len(t)] = "}"
    /\ \/ Len(t) = 2
       \/ IsMemberList(SubSeq(t, 2, Len(t) - 1))

\* parsed.get(key): the value of the last member with that key, or None
JsonGet(t, key) ==
    LET ks == {k \in 2..(Len(t) - 1) : t[k] \in Members /\ MemberKey(t[k]) = key}
    IN IF ks = {} THEN None
       ELSE MemberValue(t[CHOOSE k \in ks : \A j \in ks : j <= k])

\* re.search(r'\{.*?\}', text, re.DOTALL): the first "{" and the first "}"
\* after it; <<>> when there is no match
BraceMatch(t) ==
    LET opens == {k \in 1..Len(t) : t[k] = "{" /\ \E j \in (k + 1)..Len(t) : t[j] = "}"}
    IN IF opens = {} THEN <<>>
       ELSE LET a == CHOOSE k \in opens : \A j \in opens : k <= j
                b == CHOOSE k \in (a + 1)..Len(t) :
                        t[k] = "}" /\ \A j \in (a + 1)..(k - 1) : t[j] # "}"
            IN SubSeq(t, a, b)

\* the loop over the text parts: each part whose first brace match parses
\* overwrites character and setting
RECURSIVE ElementsOfParts(_, _)
ElementsOfParts(parts, acc) ==
    IF parts = <<>> THEN acc
    ELSE LET m == BraceMatch(Head(parts))
         IN ElementsOfParts(Tail(parts),
                IF m # <<>> /\ JsonObjectOk(m)
                THEN [character |-> JsonGet(m, "character"),
                      setting |-> JsonGet(m, "setting")]
                ELSE acc)

GenericElements == [character |-> <<"the", " ", "main", " ", "character">>,
                    setting |-> <<"the", " ", "main", " ", "setting">>]

\* StoryElementsAgentRun without the two  if not ...  defaults that follow
\* the loop
StoryElementsAgentRun_NoDefault(e, call) ==
    IF ConfigRaises(e) \/ call.kind \in {"timeout", "http"} THEN GenericElements
    ELSE IF call.kind = "badjson" THEN [character |-> None, setting |-> None]
    ELSE ElementsOfParts(call.parts, [character |-> None, setting |-> None])

StoryElementsAgentRun(e, call) ==
    IF ConfigRaises(e) \/ call.kind \in {"timeout", "http"} THEN GenericElements
    ELSE LET got == IF call.kind = "badjson"
                    THEN [character |-> None, setting |-> None]
                    ELSE ElementsOfParts(call.parts,
                                         [character |-> None, setting |-> None])
         IN [character |-> IF Truthy(got.character) THEN got.character
                           ELSE GenericElements.character,
             setting |-> IF Truthy(got.setting) THEN got.setting
                         ELSE GenericElements.setting]

------------------------------------------------------------------------------
(* PromptExampleAgent and CoherenceAgent                                   *)

GenericDesc ==
    <<"A simple doodle showing the main character(s) doing the main action in the setting.">>

\* style_info: five bullet lines, each ended by a newline
StyleInfo ==
    <<"* This is for a children's coloring book. Only draw the outlines. Make all objects large and easy to color.", "\n",
      "* Draw ONLY in black and white. NO color.", "\n",
      "* Use the simplest possible lines, like a stick-figure or a drawing by a 5-year-old.", "\n",
      "* NO shading, NO background, NO details, NO color, NO text, NO numbers.", "\n",
      "* The drawing should look like a child's doodle, not a professional illustration.", "\n">>

PromptExampleAgentRun(e, call) ==
    LET acc == Accumulated(e, call)
    IN Strip(IF acc = Absent \/ acc = <<>> THEN GenericDesc ELSE acc)

\* the first position of "\n\n" in s, or 0
FirstBreak(s) ==
    LET ks == {k \in 1..(Len(s) - 1) : s[k] = "\n" /\ s[k + 1] = "\n"}
    IN IF ks = {} THEN 0 ELSE CHOOSE k \in ks : \A j \in ks : k <= j

\* story.split('\n\n')
RECURSIVE SplitBreaks(_)
SplitBreaks(s) ==
    LET k == FirstBreak(s)
    IN IF k = 0 THEN <<s>>
       ELSE <<SubSeq(s, 1, k - 1)>> \o SplitBreaks(SubSeq(s, k + 2, Len(s)))

NonBlank(t) == t # <<>>

\* SplitScenes without the  if p.strip()  filter
SplitScenes_KeepEmpty(s) ==
    LET ps == SplitBreaks(s) IN [k \in 1..Len(ps) |-> Strip(ps[k])]

\* raw_scenes = [p.strip() for p in story.split('\n\n') if p.strip()]
SplitScenes(s) ==
    LET ps == SplitBreaks(s)
    IN SelectSeq([k \in 1..Len(ps) |-> Strip(ps[k])], NonBlank)

\* params["animal"] if "animal" in params else "animal"
AnimalOf(p) == IF p.animal = Absent THEN <<"animal">> ELSE p.animal

\* the context block built for a scene
SceneContext(animal, setting, scene) ==
    StyleInfo \o <<"Animal: ">> \o Fmt(animal) \o <<"\n", "Setting: ">>
    \o Fmt(setting) \o <<"\n", "\n", "Scene: ">> \o scene \o <<"\n", "Image:">>

\* memory["setting"] if memory and "setting" in memory else "the main setting"
MemorySetting(mem) ==
    IF "setting" \in DOMAIN mem THEN mem["setting"] ELSE GenericElements.setting

\* the prompts of the loop over raw_scenes, calls[k] being the outcome of
\* the remote call made for scene k
CoherencePrompts(e, scenes, calls) ==
    [k \in 1..Len(scenes) |-> StyleInfo \o PromptExampleAgentRun(e, calls[k])]

------------------------------------------------------------------------------
(* IllustrationGeneratorAgent                                              *)

\* a file name: "illustration_<idx>.png", "mock_image_<idx>.png", a name
\* that does not end in ".png", or no name at all (None)
Ref(kind, idx) == [kind |-> kind, idx |-> idx]
FileRef(i) == Ref("illustration", i)
MockRef(i) == Ref("mock", i)

\* One outcome of an image request, from requests.post to the write of the
\* file: "image" and "garbage" are a response with predictions (bytes that
\* are, or are not, a readable image), "empty" a response without
\* predictions, "e429" and "http" an HTTPError of raise_for_status with and
\* without status 429, "exc" any other exception.
ImageOutcomes == {"image", "garbage", "empty", "e429", "http", "exc"}

Saved(o) == o \in {"image", "garbage"}

\* LastAttempt without the break that follows a saved file
LastAttempt_NoBreak(attempt, o) == attempt = 1

\* the inner loop  for attempt in range(2)  ends after this attempt
LastAttempt(attempt, o) == Saved(o) \/ attempt = 1

\* what the attempt appends to images
Appended(i, attempt, o) ==
    IF Saved(o) THEN <<FileRef(i)>>
    ELSE IF o = "e429" THEN <<>>
    ELSE IF attempt = 0 THEN <<>>
    ELSE <<MockRef(i)>>

\* the requests and sleeps of the attempt, in order: time.sleep(10) after a
\* 429 and after a first failed attempt, and the sleep that follows the
\* inner loop
AttemptEvents(attempt, o) ==
    <<o>>
    \o (IF ~Saved(o) /\ (o = "e429" \/ attempt = 0) THEN <<"sleep">> ELSE <<>>)
    \o (IF LastAttempt(attempt, o) THEN <<"sleep">> ELSE <<>>)

------------------------------------------------------------------------------
(* BookAssemblerAgent                                                      *)

NoRef == Ref("none", 0)
PdfRef == Ref("pdf", 0)

\* img_path.endswith('.png')
EndsWithPng(ref) == ref.kind \in {"illustration", "mock"}

\* width - left_margin - right_margin for landscape(letter), in points
MaxTextWidth == 648

\* stringWidth(text, "Helvetica", 12), every character taken 6 points wide
CharWidth == 6

RECURSIVE StringWidth(_)
StringWidth(t) ==
    IF t = <<>> THEN 0 ELSE Len(Head(t)) * CharWidth + StringWidth(Tail(t))

\* the end of the run of non-blank atoms that holds position k
RECURSIVE WordEnd(_, _)
WordEnd(t, k) == IF k < Len(t) /\ ~IsSpace(t[k + 1]) THEN WordEnd(t, k + 1) ELSE k

\* str.split(): the runs of non-blank characters
RECURSIVE SplitWords(_)
SplitWords(t) ==
    LET u == LStrip(t)
    IN IF u = <<>> THEN <<>>
       ELSE LET e == WordEnd(u, 1)
            IN <<SubSeq(u, 1, e)>> \o SplitWords(SubSeq(u, e + 1, Len(u)))

\* the loop  for word in words  and the final  if current_line
RECURSIVE WrapFrom(_, _, _)
WrapFrom(words, lines, current_line) ==
    IF words = <<>>
    THEN IF current_line # <<>> THEN Append(lines, current_line) ELSE lines
    ELSE LET word == Head(words)
             test_line == current_line
                          \o (IF current_line # <<>> THEN <<" ">> ELSE <<>>) \o word
         IN IF StringWidth(test_line) <= MaxTextWidth
            THEN WrapFrom(Tail(words), lines, test_line)
            ELSE WrapFrom(Tail(words), Append(lines, current_line), word)

WrapLines(scene) == WrapFrom(SplitWords(scene), <<>>, <<>>)

\* what is drawn below the text: the image, or one of the two text lines
\* "[Failed to load illustration: ...]" and "[Illustration: ...]"
Picture(ref, files) ==
    IF ref # NoRef /\ ref \in DOMAIN files /\ EndsWithPng(ref)
    THEN IF files[ref].readable THEN "image" ELSE "failed"
    ELSE "placeholder"

TitlePage(title) ==
    [kind |-> "title", lines |-> <<title, <<"Generated", " ", "by", " ", "ADK">> >>,
     picture |-> "none", ref |-> NoRef, number |-> 0]

ScenePage(scene, ref, files, i) ==
    [kind |-> "scene", lines |-> WrapLines(scene), picture |-> Picture(ref, files),
     ref |-> ref, number |-> i + 1]

Min(a, b) == IF a <= b THEN a ELSE b

\* AssemblePages leaving out the scenes whose illustration is no file
AssemblePages_SkipMissing(scenes, illustrations, title, files) ==
    LET n == Min(Len(scenes), Len(illustrations))
        all == [k \in 1..n |-> ScenePage(scenes[k], illustrations[k], files, k - 1)]
        IsDrawn(pg) == pg.ref \in DOMAIN files
    IN <<TitlePage(title)>> \o SelectSeq(all, IsDrawn)

\* the title page, then one page per pair of zip(scenes, illustrations)
AssemblePages(scenes, illustrations, title, files) ==
    LET n == Min(Len(scenes), Len(illustrations))
    IN <<TitlePage(title)>>
       \o [k \in 1..n |-> ScenePage(scenes[k], illustrations[k], files, k - 1)]

\* lines 701-704 of BookCreationWorkflow.run
WorkflowScenes(mem, st) == IF "scenes" \in DOMAIN mem THEN mem["scenes"] ELSE <<st>>
WorkflowTitle(el) == el.character \o <<" ", "in", " ">> \o el.setting

------------------------------------------------------------------------------
(* The request layer: sessions, uploads and the background job             *)

\* dict.get(key) on a document
SGet(d, key) == IF key \in DOMAIN d THEN d[key] ELSE None

\* get_session(session_id) is not None
SessionExists(store, sid) == sid \in DOMAIN store

\* save_session: document(session_id).set(data) replaces the whole document
save_session(store, sid, data) == (sid :> data) @@ store

\* the params dictionary generate_story builds from a BookRequest: a field
\* is passed on only when it is truthy
RequestParams(req) ==
    LET field(v) == IF Truthy(v) THEN v ELSE Absent
    IN [randomize_all |-> req.randomize_all,
        character_name |-> field(req.character_name),
        animal |-> field(req.animal),
        gender |-> field(req.gender),
        age |-> Absent,
        setting |-> field(req.setting),
        custom_elements |-> field(req.custom_elements)]

\* the document generate_story saves
NewSession(proc, st, el) ==
    ("params" :> proc) @@ ("story" :> st) @@ ("elements" :> el)

BookFilename == <<"PixieLabs Book.pdf">>

\* the object books/<session_id>/<name> of the bucket, also its public URL
GcsPath(sid, name) == [sid |-> sid, name |-> name]

\* the images IllustrationGeneratorAgent.run appends for prompt i when the
\* outcomes of its requests are run (one outcome, or two when the first
\* request did not save a file)
RunImages(i, run) ==
    Appended(i, 0, run[1])
    \o (IF LastAttempt(0, run[1]) THEN <<>> ELSE Appended(i, 1, run[2]))

RECURSIVE ImagesOfRuns(_, _)
ImagesOfRuns(runs, k) ==
    IF k > Len(runs) THEN <<>>
    ELSE RunImages(k - 1, runs[k]) \o ImagesOfRuns(runs, k + 1)

\* the files the requests of the runs write: illustration_<i>.png for each
\* prompt one of whose requests returned predictions
FilesOfRuns(runs, prompts_in, files) ==
    LET saved == {k \in 1..Len(runs) : Saved(runs[k][Len(runs[k])])}
    IN [r \in {FileRef(k - 1) : k \in saved} \cup DOMAIN files |->
          IF \E k \in saved : r = FileRef(k - 1)
          THEN LET k == CHOOSE k \in saved : r = FileRef(k - 1)
               IN [prompt |-> prompts_in[k],
                   readable |-> runs[k][Len(runs[k])] = "image"]
          ELSE files[r]]

\* the local paths run_book_generation uploads, in order, and the object
\* name each one is uploaded under
UploadPaths(illustrations) == <<PdfRef>> \o illustrations
UploadName(k) == IF k = 1 THEN PdfRef ELSE FileRef(k - 2)

\* the first upload that raises: the one the network fails (net), or the
\* first whose local file does not exist, whichever is first; Len + 1 when
\* none does
FirstMissing(paths, files) ==
    LET ks == {k \in 1..Len(paths) : paths[k] \notin DOMAIN files}
    IN IF ks = {} THEN Len(paths) + 1 ELSE CHOOSE k \in ks : \A j \in ks : k <= j

UploadStop(paths, files, net) == Min(net, FirstMissing(paths, files))

\* the bucket after the uploads that came before the stop
Uploaded(store, sid, paths, files, stop) ==
    LET new == {GcsPath(sid, UploadName(k)) : k \in 1..(stop - 1)}
    IN [u \in new \cup DOMAIN store |->
          IF u \in new
          THEN files[paths[CHOOSE k \in 1..(stop - 1) : u = GcsPath(sid, UploadName(k))]]
          ELSE store[u]]

\* cleanup_local_files
CleanedUp(files, paths) ==
    [r \in DOMAIN files \ {paths[k] : k \in 1..Len(paths)} |-> files[r]]

\* lines 134-138 and 141-142: the snapshot run_book_generation saves
DoneSession(session, illustrations, pdf_url, urls) ==
    ("status" :> "done") @@ ("illustration_urls" :> urls)
    @@ ("pdf_url" :> pdf_url) @@ ("illustration_paths" :> illustrations)
    @@ ("book_filename" :> BookFilename) @@ session

ErrorSession(session, exc) ==
    ("error_message" :> exc) @@ ("status" :> "error") @@ session

\* {"error": "Session not found"}
SessionNotFound == ("error" :> "Session not found")

\* a request answered
Answer(op, sid, body) == [op |-> op, sid |-> sid, body |-> body]

\* book_status's return value
BookStatusResponse(store, sid) ==
    IF ~SessionExists(store, sid) THEN SessionNotFound
    ELSE LET session == store[sid]
             status == IF "status" \in DOMAIN session THEN session["status"]
                       ELSE "pending"
         IN IF status = "done"
            THEN ("status" :> "done") @@ ("book" :> sid)
                 @@ ("book_filename" :> SGet(session, "book_filename"))
                 @@ ("illustrations" :> SGet(session, "illustration_urls"))
                 @@ ("pdf_url" :> SGet(session, "pdf_url"))
                 @@ ("scenes" :> SGet(session, "scenes"))
            ELSE IF status = "error"
            THEN ("status" :> "error")
                 @@ ("error" :> IF "error_message" \in DOMAIN session
                                THEN session["error_message"] ELSE "Unknown error")
            ELSE ("status" :> status)

\* DownloadBookResponse with the two tests made as one
DownloadBookResponse_OneTest(store, sid) ==
    IF ~SessionExists(store, sid) \/ "pdf_url" \notin DOMAIN store[sid]
    THEN ("error" :> "PDF not found")
    ELSE ("redirect" :> store[sid]["pdf_url"])

\* download_book's return value
DownloadBookResponse(store, sid) ==
    IF ~SessionExists(store, sid) THEN SessionNotFound
    ELSE IF "pdf_url" \notin DOMAIN store[sid] THEN ("error" :> "PDF not found")
    ELSE ("redirect" :> store[sid]["pdf_url"])

\* pdf_url before line 130 assigns it
NoUrl == GcsPath(0, NoRef)

\* a background task added by generate_book: its local variables (session
\* is the dictionary the task changes, read the record as get_session
\* returned it), the context blocks its CoherenceAgent built, the files it
\* wrote and the path whose upload raised
NewJob(sid) ==
    [sid |-> sid, stage |-> "scheduled", session |-> <<>>, read |-> <<>>,
     contexts |-> <<>>, generated |-> <<>>,
     illustrations |-> <<>>, pdf_url |-> NoUrl, illustration_urls |-> <<>>,
     failed_at |-> NoRef, exc |-> ""]

\* line 120: the memory run_book_generation hands to the agents
JobMemory(session) == ("story" :> session["story"])

\* the context blocks CoherenceAgent.run builds inside the job
JobContexts(session) ==
    LET scenes == SplitScenes(session["story"])
    IN [k \in 1..Len(scenes) |->
           SceneContext(AnimalOf(session["params"]),
                        MemorySetting(JobMemory(session)), scenes[k])]

\* the PDF BookAssemblerAgent.run writes
PdfFile == [prompt |-> <<>>, readable |-> TRUE]


------------------------------------------------------------------------------
(* Inputs                                                                  *)

Envs == {"ok", "noproject", "noauth"}

Fox == <<"F","o","x">>
Zoo == <<"Z","o","o">>
Fun == <<"f","u","n">>
InTheZoo == <<"i","n"," ","t","h","e"," ","z","o","o">>
AtTheZoo == <<"H","i","."," ","A","t"," ","t","h","e"," ","Z","o","o","!">>
WinTheCup == <<"w","i","n"," ","t","h","e"," ","c","u","p">>

\* the parameter dictionaries a caller may pass: each key absent, None or a
\* string
ParamInputs ==
    [randomize_all : BOOLEAN,
     character_name : {Absent, None, <<"L","u">>},
     animal : {Absent, None, Fox},
     gender : {Absent, None, <<"M","a","l","e">>, <<"g","i","r","l">>},
     age : {Absent, <<"4">>},
     setting : {Absent, None, <<>>, Zoo},
     custom_elements : {Absent, None, <<>>, Fun, InTheZoo, AtTheZoo, WinTheCup}]

StoryText == <<"A",".">>

\* outcomes of the story call
StoryCalls ==
    {TextCall(k, <<>>) : k \in {"timeout", "http", "badjson"}}
    \cup {TextCall("parts", ps) :
            ps \in {<<>>, << <<>> >>, <<StoryText>>,
                    <<StoryText, <<"\n","\n","B">> >>}}

\* outcomes of the elements call
ElementCalls ==
    {TextCall(k, <<>>) : k \in {"timeout", "badjson"}}
    \cup {TextCall("parts", ps) :
            ps \in {<< <<"o","k">> >>,
                    << <<"{", "\"character\": \"Bo\"", ",", "\"setting\": \"Sea\"", "}">> >>,
                    << <<"{", "\"character\": \"\"", ",", "\"note\": \"x\"", "}">> >>}}

\* the texts the parts of an elements response are drawn from: objects with
\* both fields, one field, an empty or null field, prose around an object,
\* prose with braces before an object, no object, the two halves of an
\* object cut between two parts
ObjBoSea == <<"{", "\"character\": \"Bo\"", ",", "\"setting\": \"Sea\"", "}">>
ObjHill == <<"{", "\"setting\": \"Hill\"", "}">>
ObjNull == <<"{", "\"character\": null", ",", "\"setting\": \"Sea\"", "}">>
ObjEmpty == <<"{", "\"character\": \"\"", ",", "\"note\": \"x\"", "}">>
ElementPartTexts ==
    {ObjBoSea, ObjHill, ObjNull, ObjEmpty,
     <<"S","u","r","e",":"," ">> \o ObjBoSea \o <<" ","d","o","n","e">>,
     <<"{","s","e","e","}"," ">> \o ObjBoSea,
     <<"o","k">>,
     <<"{", "\"character\": \"Bo\"">>,
     <<",", "\"setting\": \"Sea\"", "}">>}

DescText == <<"d">>

\* outcomes of the prompt call of one scene
DescCalls ==
    {TextCall("http", <<>>), TextCall("parts", <<>>),
     TextCall("parts", << <<" ">>, DescText, <<"\n">> >>)}

\* the paragraphs stories under test are joined from: none of them holds a
\* blank line
ParaTexts == {<<>>, <<"\n">>, <<"a">>, <<" ","b","\n">>}

MaxParas == 3

RECURSIVE SeqsUpTo(_, _)
SeqsUpTo(S, n) ==
    IF n = 0 THEN {<<>>}
    ELSE LET shorter == SeqsUpTo(S, n - 1)
         IN shorter \cup {Append(q, x) : q \in {r \in shorter : Len(r) = n - 1}, x \in S}

\* "\n\n".join(ps)
RECURSIVE JoinParas(_)
JoinParas(ps) ==
    IF ps = <<>> THEN <<>>
    ELSE IF Len(ps) = 1 THEN ps[1]
    ELSE ps[1] \o <<"\n","\n">> \o JoinParas(Tail(ps))

\* a record the resolver returns for {"character_name": "Luna", "animal":
\* "fox", "gender": "female", "setting": "Sunny meadow"}
LunaRecord ==
    [character_name |-> <<"Luna">>, animal |-> <<"fox">>,
     gender |-> <<"f","e","m","a","l","e">>, age |-> <<"3-5">>,
     voice |-> <<"female">>, length |-> <<"short">>,
     setting |-> <<"Sunny", " ", "meadow">>, custom_elements |-> None,
     pronoun_subject |-> <<"she">>, pronoun_object |-> <<"her">>,
     pronoun_possessive |-> <<"her">>]

MaxParts == 2

\* outcomes of the elements call, with up to MaxParts text parts
ElementCallsUpTo ==
    {TextCall(k, <<>>) : k \in {"timeout", "http", "badjson"}}
    \cup {TextCall("parts", ps) : ps \in SeqsUpTo(ElementPartTexts, MaxParts)}

MaxSessions == 1
MaxJobs == 2

\* the session ids a request may name: those generate_story may give out
\* and one it never gives
SessionIds == 1..(MaxSessions + 1)

\* the bodies of the generate-story requests
BookRequests ==
    [randomize_all : {FALSE}, character_name : {<<"L","u">>}, animal : {Fox},
     gender : {<<"g","i","r","l">>}, custom_elements : {None, <<>>},
     setting : {Zoo}]

\* outcomes of the random.choice calls made for a request
ApiChoices ==
    {rnd \in Choices : /\ rnd.character_name = <<"Luna">>
                       /\ rnd.animal = <<"fox">>
                       /\ rnd.setting = <<"Sunny", " ", "meadow">>}

\* outcomes of the remote calls made for a request and for a background job
ApiStoryCalls == {TextCall("timeout", <<>>),
                  TextCall("parts", <<StoryText, <<"\n","\n","B">> >>)}
ApiElementCalls ==
    {TextCall("timeout", <<>>),
     TextCall("parts", << <<"{", "\"character\": \"Bo\"", ",", "\"setting\": \"Sea\"", "}">> >>)}
ApiDescCalls == {TextCall("http", <<>>), TextCall("parts", <<DescText>>)}

\* the outcomes of the image requests made for one prompt
ApiAttemptRuns == {<<"image">>, <<"http", "exc">>, <<"empty", "e429">>}

------------------------------------------------------------------------------
(* The stages of BookCreationWorkflow.run                                  *)

Raise(by, exc) ==
    /\ pc' = "raised"
    /\ raised' = [by |-> by, exc |-> exc]

UserInputAgent_run ==
    /\ pc = "input"
    /\ \E rnd \in Choices :
          IF ResolverRaises(params, rnd)
          THEN /\ Raise("UserInputAgent", "AttributeError")
               /\ UNCHANGED <<processed, setting_from, memory>>
          ELSE /\ processed' = UserInputAgentRun(params, rnd)
               /\ setting_from' = ResolveSetting(params, rnd).from
               /\ memory' = ("user_params" :> processed') @@ memory
               /\ pc' = "story"
               /\ UNCHANGED raised
    /\ UNCHANGED <<env, reportlab, params, story, elements, paras, desc_calls,
                   contexts, prompts, illusVars, pages, apiVars, elem_call>>

StoryGeneratorAgent_run ==
    /\ pc = "story"
    /\ \E call \in StoryCalls :
          IF StoryRaises(processed, env, call)
          THEN /\ Raise("StoryGeneratorAgent", "AttributeError")
               /\ UNCHANGED <<story, memory>>
          ELSE /\ story' = StoryGeneratorAgentRun(processed, env, call)
               /\ memory' = ("story" :> story') @@ memory
               /\ pc' = "elements"
               /\ UNCHANGED raised
    /\ UNCHANGED <<env, reportlab, params, processed, setting_from, elements,
                   paras, desc_calls, contexts, prompts, illusVars, pages,
                   apiVars, elem_call>>

StoryElementsAgent_run ==
    /\ pc = "elements"
    /\ \E call \in (IF elem_call = NoCall THEN ElementCalls ELSE {elem_call}) :
          /\ elem_call' = call
          /\ elements' = StoryElementsAgentRun(env, call)
          /\ memory' = ("character" :> elements'.character)
                        @@ ("setting" :> elements'.setting) @@ memory
    /\ pc' = "coherence"
    /\ UNCHANGED <<env, reportlab, raised, params, processed, setting_from,
                   story, paras, desc_calls, contexts, prompts, illusVars,
                   pages, apiVars>>

CoherenceAgent_run ==
    /\ pc = "coherence"
    /\ LET raw_scenes == SplitScenes(story)
       IN \E calls \in [1..Len(raw_scenes) -> DescCalls] :
             /\ desc_calls' = calls
             /\ contexts' = [k \in 1..Len(raw_scenes) |->
                                SceneContext(AnimalOf(processed),
                                             MemorySetting(memory), raw_scenes[k])]
             /\ prompts' = CoherencePrompts(env, raw_scenes, calls)
             /\ memory' = ("prompts" :> prompts') @@ ("scenes" :> raw_scenes)
                           @@ memory
    /\ pc' = "illustrate"
    /\ UNCHANGED <<env, reportlab, raised, params, processed, setting_from,
                   story, elements, paras, illusVars, pages, apiVars, elem_call>>

\* lines 491-506: the project, the credentials and the headers, outside
\* any try block
IllustrationGenerator_setup ==
    /\ pc = "illustrate"
    /\ IF ConfigRaises(env)
       THEN /\ Raise("IllustrationGeneratorAgent",
                     IF env = "noproject" THEN "KeyError"
                     ELSE "DefaultCredentialsError")
            /\ UNCHANGED <<images, ig_i, ig_attempt, ig_hist>>
       ELSE /\ pc' = "requests"
            /\ images' = <<>>
            /\ ig_i' = 0
            /\ ig_attempt' = 0
            /\ ig_hist' = <<>>
            /\ UNCHANGED raised
    /\ UNCHANGED <<env, reportlab, params, processed, setting_from, story,
                   memory, elements, paras, desc_calls, contexts, prompts,
                   tmpfiles, artifact, pages, apiVars, elem_call>>

\* one pass of the body of  for attempt in range(2)  for prompt ig_i
IllustrationGenerator_attempt ==
    /\ pc = "requests"
    /\ ig_i < Len(prompts)
    /\ \E o \in ImageOutcomes :
          /\ images' = images \o Appended(ig_i, ig_attempt, o)
          /\ ig_hist' =
                IF ig_attempt = 0
                THEN Append(ig_hist, AttemptEvents(ig_attempt, o))
                ELSE [ig_hist EXCEPT ![ig_i + 1] = @ \o AttemptEvents(ig_attempt, o)]
          /\ tmpfiles' =
                IF Saved(o)
                THEN (FileRef(ig_i) :> [prompt |-> prompts[ig_i + 1],
                                        readable |-> (o = "image")]) @@ tmpfiles
                ELSE tmpfiles
          /\ IF LastAttempt(ig_attempt, o)
             THEN ig_i' = ig_i + 1 /\ ig_attempt' = 0
             ELSE ig_i' = ig_i /\ ig_attempt' = 1
    /\ UNCHANGED <<pipeVars, artifact, pages, apiVars>>

\* the loop over the prompts is over
IllustrationGenerator_return ==
    /\ pc = "requests"
    /\ ig_i = Len(prompts)
    /\ artifact' = ("illustrations" :> images) @@ artifact
    /\ pc' = "assemble"
    /\ UNCHANGED <<env, reportlab, raised, params, processed, setting_from,
                   story, memory, elements, paras, desc_calls, contexts,
                   prompts, images, ig_i, ig_attempt, ig_hist, tmpfiles,
                   pages, apiVars, elem_call>>

\* the title and the scenes of BookCreationWorkflow.run, then
\* BookAssemblerAgent.run
BookAssemblerAgent_run ==
    /\ pc = "assemble"
    /\ IF ~reportlab
       THEN /\ Raise("BookAssemblerAgent", "RuntimeError")
            /\ UNCHANGED <<tmpfiles, artifact, pages>>
       ELSE /\ pages' = AssemblePages(WorkflowScenes(memory, story), images,
                                      WorkflowTitle(elements), tmpfiles)
            /\ tmpfiles' = (PdfRef :> PdfFile) @@ tmpfiles
            /\ artifact' = ("book" :> PdfRef) @@ ("book_filename" :> PdfRef)
                           @@ artifact
            /\ pc' = "done"
            /\ UNCHANGED raised
    /\ UNCHANGED <<env, params, reportlab, processed, setting_from, story,
                   memory, elements, paras, desc_calls, contexts, prompts,
                   images, ig_i, ig_attempt, ig_hist, apiVars, elem_call>>

------------------------------------------------------------------------------
(* The request handlers and the background job of src/api_server.py       *)

\* POST /api/generate-story
generate_story ==
    /\ pc = "serving"
    /\ Cardinality(DOMAIN sessions) < MaxSessions
    /\ \E req \in BookRequests, rnd \in ApiChoices,
          scall \in ApiStoryCalls, ecall \in ApiElementCalls :
          LET p == RequestParams(req)
              proc == UserInputAgentRun(p, rnd)
              session_id == Cardinality(DOMAIN sessions) + 1
          IN IF ResolverRaises(p, rnd) \/ StoryRaises(proc, env, scall)
             THEN /\ response' = Answer("generate_story", 0,
                                        ("raised" :> "AttributeError"))
                  /\ UNCHANGED sessions
             ELSE LET st == StoryGeneratorAgentRun(proc, env, scall)
                      el == StoryElementsAgentRun(env, ecall)
                  IN /\ sessions' = save_session(sessions, session_id,
                                                 NewSession(proc, st, el))
                     /\ response' = Answer("generate_story", session_id,
                                           ("session_id" :> session_id)
                                           @@ ("story" :> st)
                                           @@ ("elements" :> el))
    /\ UNCHANGED <<pipeVars, illusVars, pages, jobs, gb, blobs>>

\* generate_book_get refusing a session whose status is pending
generate_book_get_Locked ==
    /\ pc = "serving"
    /\ gb.stage = "idle"
    /\ Len(jobs) < MaxJobs
    /\ \E sid \in SessionIds :
          IF ~SessionExists(sessions, sid)
          THEN /\ response' = Answer("generate_book", sid, SessionNotFound)
               /\ UNCHANGED gb
          ELSE IF "status" \in DOMAIN sessions[sid]
                  /\ sessions[sid]["status"] = "pending"
          THEN /\ response' = Answer("generate_book", sid,
                                     ("error" :> "Already pending"))
               /\ UNCHANGED gb
          ELSE /\ gb' = [stage |-> "got", sid |-> sid, session |-> sessions[sid]]
               /\ UNCHANGED response
    /\ UNCHANGED <<pipeVars, illusVars, pages, sessions, jobs, blobs>>

\* POST /api/generate-book up to get_session: a missing session is answered
\* at once
generate_book_get ==
    /\ pc = "serving"
    /\ gb.stage = "idle"
    /\ Len(jobs) < MaxJobs
    /\ \E sid \in SessionIds :
          IF ~SessionExists(sessions, sid)
          THEN /\ response' = Answer("generate_book", sid, SessionNotFound)
               /\ UNCHANGED gb
          ELSE /\ gb' = [stage |-> "got", sid |-> sid, session |-> sessions[sid]]
               /\ UNCHANGED response
    /\ UNCHANGED <<pipeVars, illusVars, pages, sessions, jobs, blobs>>

\* lines 107-111: the snapshot is saved with status pending and the task
\* added
generate_book_save ==
    /\ pc = "serving"
    /\ gb.stage = "got"
    /\ sessions' = save_session(sessions, gb.sid,
                                ("status" :> "pending") @@ gb.session)
    /\ jobs' = Append(jobs, NewJob(gb.sid))
    /\ response' = Answer("generate_book", gb.sid,
                           ("session_id" :> gb.sid) @@ ("status" :> "pending"))
    /\ gb' = [stage |-> "idle", sid |-> 0, session |-> <<>>]
    /\ UNCHANGED <<pipeVars, illusVars, pages, blobs>>

\* GET /api/book-status
book_status ==
    /\ pc = "serving"
    /\ \E sid \in SessionIds :
          response' = Answer("book_status", sid, BookStatusResponse(sessions, sid))
    /\ UNCHANGED <<pipeVars, illusVars, pages, sessions, jobs, gb, blobs>>

\* GET /api/download-book
download_book ==
    /\ pc = "serving"
    /\ \E sid \in SessionIds :
          response' = Answer("download_book", sid,
                             DownloadBookResponse(sessions, sid))
    /\ UNCHANGED <<pipeVars, illusVars, pages, sessions, jobs, gb, blobs>>

\* run_book_generation, lines 114-116
JobStart(j) ==
    /\ jobs[j].stage = "scheduled"
    /\ jobs' = IF SessionExists(sessions, jobs[j].sid)
               THEN [jobs EXCEPT ![j].stage = "started",
                                 ![j].session = sessions[jobs[j].sid],
                                 ![j].read = sessions[jobs[j].sid]]
               ELSE [jobs EXCEPT ![j].stage = "finished"]
    /\ UNCHANGED <<pipeVars, illusVars, pages, sessions, gb, blobs, response>>

\* lines 118-127: CoherenceAgent, IllustrationGeneratorAgent and
\* BookAssemblerAgent; an exception goes to the except branch
JobGenerate(j) ==
    /\ jobs[j].stage = "started"
    /\ LET scenes == SplitScenes(jobs[j].session["story"])
       IN \E calls \in [1..Len(scenes) -> ApiDescCalls],
             runs \in [1..Len(scenes) -> ApiAttemptRuns] :
             LET job_prompts == CoherencePrompts(env, scenes, calls)
                 written == FilesOfRuns(runs, job_prompts, tmpfiles)
                 built == JobContexts(jobs[j].session)
             IN IF ConfigRaises(env)
                THEN /\ jobs' = [jobs EXCEPT ![j].stage = "failed",
                                    ![j].contexts = built,
                                    ![j].exc = IF env = "noproject" THEN "KeyError"
                                               ELSE "DefaultCredentialsError"]
                     /\ UNCHANGED tmpfiles
                ELSE IF ~reportlab
                THEN /\ jobs' = [jobs EXCEPT ![j].stage = "failed",
                                    ![j].contexts = built,
                                    ![j].generated =
                                        FilesOfRuns(runs, job_prompts, <<>>),
                                    ![j].exc = "RuntimeError"]
                     /\ tmpfiles' = written
                ELSE /\ jobs' = [jobs EXCEPT ![j].stage = "generated",
                                    ![j].contexts = built,
                                    ![j].generated =
                                        (PdfRef :> PdfFile)
                                        @@ FilesOfRuns(runs, job_prompts, <<>>),
                                    ![j].illustrations = ImagesOfRuns(runs, 1)]
                     /\ tmpfiles' = (PdfRef :> PdfFile) @@ written
    /\ UNCHANGED <<pipeVars, images, ig_i, ig_attempt, ig_hist, artifact, pages,
                   sessions, gb, blobs, response>>

\* lines 128-133: the uploads and the cleanup
JobUpload(j) ==
    /\ jobs[j].stage = "generated"
    /\ LET paths == UploadPaths(jobs[j].illustrations)
       IN \E net \in 1..(Len(paths) + 1) :
             LET stop == UploadStop(paths, tmpfiles, net)
                 sid == jobs[j].sid
             IN /\ blobs' = Uploaded(blobs, sid, paths, tmpfiles, stop)
                /\ IF stop <= Len(paths)
                   THEN /\ jobs' = [jobs EXCEPT ![j].stage = "failed",
                                       ![j].failed_at = paths[stop],
                                       ![j].exc = IF paths[stop] \in DOMAIN tmpfiles
                                                  THEN "GoogleCloudError"
                                                  ELSE "FileNotFoundError"]
                        /\ UNCHANGED tmpfiles
                   ELSE /\ jobs' = [jobs EXCEPT ![j].stage = "uploaded",
                               ![j].pdf_url = GcsPath(sid, PdfRef),
                               ![j].illustration_urls =
                                   [k \in 1..Len(jobs[j].illustrations) |->
                                       GcsPath(sid, FileRef(k - 1))]]
                        /\ tmpfiles' = CleanedUp(tmpfiles, paths)
    /\ UNCHANGED <<pipeVars, images, ig_i, ig_attempt, ig_hist, artifact, pages,
                   sessions, gb, response>>

\* lines 134-139, or the except branch: the job's snapshot replaces the
\* stored document
JobSave(j) ==
    /\ jobs[j].stage \in {"uploaded", "failed"}
    /\ sessions' = save_session(sessions, jobs[j].sid,
           IF jobs[j].stage = "uploaded"
           THEN DoneSession(jobs[j].session, jobs[j].illustrations,
                            jobs[j].pdf_url, jobs[j].illustration_urls)
           ELSE ErrorSession(jobs[j].session, jobs[j].exc))
    /\ jobs' = [jobs EXCEPT ![j].stage = "finished"]
    /\ UNCHANGED <<pipeVars, illusVars, pages, gb, blobs, response>>

\* a store call of the job raises instead of returning: get_session at
\* line 114 (outside the try) and save_session at line 143 (inside the
\* except branch) take the exception out of the task; save_session at line
\* 139 takes the job, its session dictionary already filled in, to the
\* except branch
JobStoreRaises(j) ==
    /\ jobs[j].stage \in {"scheduled", "uploaded", "failed"}
    /\ jobs' = IF jobs[j].stage = "uploaded"
               THEN [jobs EXCEPT ![j].stage = "failed",
                        ![j].session =
                            DoneSession(jobs[j].session, jobs[j].illustrations,
                                        jobs[j].pdf_url, jobs[j].illustration_urls),
                        ![j].exc = "GoogleAPICallError"]
               ELSE [jobs EXCEPT ![j].stage = "crashed",
                                 ![j].exc = "GoogleAPICallError"]
    /\ UNCHANGED <<pipeVars, illusVars, pages, sessions, gb, blobs, response>>

\* a store call of one of the background tasks raises
store_raises ==
    /\ pc = "serving"
    /\ \E j \in 1..Len(jobs) : JobStoreRaises(j)

\* a step of one of the background tasks
run_book_generation ==
    /\ pc = "serving"
    /\ \E j \in 1..Len(jobs) :
          JobStart(j) \/ JobGenerate(j) \/ JobUpload(j) \/ JobSave(j)

------------------------------------------------------------------------------
(* The parameter resolver followed by the story generator                  *)

InitApi ==
    /\ sessions = <<>>
    /\ jobs = <<>>
    /\ gb = [stage |-> "idle", sid |-> 0, session |-> <<>>]
    /\ blobs = <<>>
    /\ response = Answer("", 0, <<>>)

InitIllus ==
    /\ InitApi
    /\ images = <<>>
    /\ ig_i = 0
    /\ ig_attempt = 0
    /\ ig_hist = <<>>
    /\ tmpfiles = <<>>
    /\ artifact = <<>>
    /\ pages = <<>>

InitPipe ==
    /\ reportlab = TRUE
    /\ raised = NoExc
    /\ processed = Absent
    /\ setting_from = ""
    /\ story = Absent
    /\ memory = <<>>
    /\ elements = <<>>
    /\ paras = <<>>
    /\ elem_call = NoCall
    /\ desc_calls = <<>>
    /\ contexts = <<>>
    /\ prompts = <<>>
    /\ InitIllus

InitParams ==
    /\ InitPipe
    /\ pc = "input"
    /\ env \in Envs
    /\ params \in ParamInputs

NextParams == UserInputAgent_run \/ StoryGeneratorAgent_run

SpecParams == InitParams /\ [][NextParams]_vars

\* the parameter resolver alone
InitResolver == InitParams /\ env = "ok"

NextResolver == UserInputAgent_run

SpecResolver == InitResolver /\ [][NextResolver]_vars

\* the element extractor alone, the outcome of its remote call being fixed
\* from the start
InitElements ==
    /\ reportlab = TRUE
    /\ raised = NoExc
    /\ params = <<>>
    /\ processed = LunaRecord
    /\ setting_from = ""
    /\ story = StoryText
    /\ memory = ("user_params" :> processed) @@ ("story" :> story)
    /\ elements = <<>>
    /\ paras = <<>>
    /\ desc_calls = <<>>
    /\ contexts = <<>>
    /\ prompts = <<>>
    /\ InitIllus
    /\ pc = "elements"
    /\ env \in Envs
    /\ elem_call \in ElementCallsUpTo

NextElements == StoryElementsAgent_run

SpecElements == InitElements /\ [][NextElements]_vars

\* the scene and prompt splitter alone, on a story joined from paragraphs,
\* with the memory of the workflow (elements extracted) or of the
\* background job (the story only)
InitCoherence ==
    /\ reportlab = TRUE
    /\ raised = NoExc
    /\ params = <<>>
    /\ processed = LunaRecord
    /\ setting_from = ""
    /\ elements = <<>>
    /\ elem_call = NoCall
    /\ desc_calls = <<>>
    /\ contexts = <<>>
    /\ prompts = <<>>
    /\ InitIllus
    /\ pc = "coherence"
    /\ env \in Envs
    /\ paras \in SeqsUpTo(ParaTexts, MaxParas)
    /\ story = JoinParas(paras)
    /\ memory \in {("story" :> story),
                   ("story" :> story) @@ ("character" :> <<"B","o">>)
                       @@ ("setting" :> <<"S","e","a">>)}

NextCoherence == CoherenceAgent_run

SpecCoherence == InitCoherence /\ [][NextCoherence]_vars

MaxPrompts == 2

PromptText == StyleInfo \o DescText

\* the illustration generator alone, on any list of prompts
InitIllustrate ==
    /\ reportlab = TRUE
    /\ raised = NoExc
    /\ params = <<>>
    /\ processed = LunaRecord
    /\ setting_from = ""
    /\ story = Absent
    /\ memory = <<>>
    /\ elements = <<>>
    /\ paras = <<>>
    /\ elem_call = NoCall
    /\ desc_calls = <<>>
    /\ contexts = <<>>
    /\ InitIllus
    /\ pc = "illustrate"
    /\ env \in Envs
    /\ prompts \in SeqsUpTo({PromptText, StyleInfo \o GenericDesc}, MaxPrompts)

NextIllustrate ==
    \/ IllustrationGenerator_setup
    \/ IllustrationGenerator_attempt
    \/ IllustrationGenerator_return

SpecIllustrate == InitIllustrate /\ [][NextIllustrate]_vars

MaxScenes == 2

Word60 == "wwwwwwwwwwwwwwwwwwwwwwwwwwwwwwwwwwwwwwwwwwwwwwwwwwwwwwwwwwww"
Word120 == "WWWWWWWWWWWWWWWWWWWWWWWWWWWWWWWWWWWWWWWWWWWWWWWWWWWWWWWWWWWWWWWWWWWWWWWWWWWWWWWWWWWWWWWWWWWWWWWWWWWWWWWWWWWWWWWWWWWWWWWWWWWW"

\* scene texts: one line, three words that do not fit one line, a word
\* wider than a line
SceneTexts == {<<"a", " ", "b">>,
               <<Word60, " ", Word60, "\n", Word60>>,
               <<Word120, " ", "c">>}

\* the illustration of a scene: None, a readable file, an unreadable file, a
\* file that is gone, the placeholder name, a file that is no .png
ImageCases == {"none", "good", "bad", "gone", "mock", "jpg"}

CaseRef(c, i) ==
    IF c = "none" THEN NoRef
    ELSE IF c = "mock" THEN MockRef(i)
    ELSE IF c = "jpg" THEN Ref("jpg", i)
    ELSE FileRef(i)

CaseFiles(cs) ==
    LET present == {k \in 1..Len(cs) : cs[k] \in {"good", "bad", "jpg"}}
    IN [r \in {CaseRef(cs[k], k - 1) : k \in present} |->
           [prompt |-> <<>>,
            readable |-> \E k \in present : r = CaseRef(cs[k], k - 1) /\ cs[k] # "bad"]]

\* the book assembler alone, on scenes and illustrations of equal length
InitAssembler ==
    /\ raised = NoExc
    /\ params = <<>>
    /\ processed = LunaRecord
    /\ setting_from = ""
    /\ story = Absent
    /\ elements = GenericElements
    /\ paras = <<>>
    /\ elem_call = NoCall
    /\ desc_calls = <<>>
    /\ contexts = <<>>
    /\ prompts = <<>>
    /\ ig_i = 0
    /\ ig_attempt = 0
    /\ ig_hist = <<>>
    /\ artifact = <<>>
    /\ pages = <<>>
    /\ InitApi
    /\ pc = "assemble"
    /\ env = "ok"
    /\ reportlab \in BOOLEAN
    /\ \E scenes \in SeqsUpTo(SceneTexts, MaxScenes) :
          /\ memory = ("scenes" :> scenes)
          /\ \E cs \in [1..Len(scenes) -> ImageCases] :
                /\ images = [k \in 1..Len(scenes) |-> CaseRef(cs[k], k - 1)]
                /\ tmpfiles = CaseFiles(cs)

NextAssembler == BookAssemblerAgent_run

SpecAssembler == InitAssembler /\ [][NextAssembler]_vars

\* the parameter dictionaries of the whole workflow: every field a string
\* or missing
WorkflowParams ==
    {p \in ParamInputs :
        /\ ~p.randomize_all
        /\ p.character_name = <<"L","u">> /\ p.animal = Fox
        /\ p.gender = <<"g","i","r","l">> /\ p.age = <<"4">>
        /\ p.setting \in {Absent, Zoo}
        /\ p.custom_elements \in {Absent, InTheZoo}}

\* BookCreationWorkflow.run from its first line, in every environment
InitWorkflow ==
    /\ InitPipe
    /\ pc = "input"
    /\ env \in Envs
    /\ params \in WorkflowParams

NextWorkflow ==
    \/ UserInputAgent_run
    \/ StoryGeneratorAgent_run
    \/ StoryElementsAgent_run
    \/ CoherenceAgent_run
    \/ IllustrationGenerator_setup
    \/ IllustrationGenerator_attempt
    \/ IllustrationGenerator_return
    \/ BookAssemblerAgent_run

SpecWorkflow == InitWorkflow /\ [][NextWorkflow]_vars

\* the server: any interleaving of requests and of the steps of the
\* background tasks
InitSession ==
    /\ raised = NoExc
    /\ params = <<>>
    /\ processed = Absent
    /\ setting_from = ""
    /\ story = Absent
    /\ memory = <<>>
    /\ elements = <<>>
    /\ paras = <<>>
    /\ elem_call = NoCall
    /\ desc_calls = <<>>
    /\ contexts = <<>>
    /\ prompts = <<>>
    /\ InitIllus
    /\ pc = "serving"
    /\ env \in Envs
    /\ reportlab \in BOOLEAN

NextSession ==
    \/ generate_story
    \/ generate_book_get
    \/ generate_book_save
    \/ book_status
    \/ download_book
    \/ run_book_generation

SpecSession == InitSession /\ [][NextSession]_vars

\* a step of background task j, its store calls returning or raising
JobStep(j) ==
    /\ pc = "serving"
    /\ j <= Len(jobs)
    /\ \/ JobStart(j) \/ JobGenerate(j) \/ JobUpload(j) \/ JobSave(j)
       \/ JobStoreRaises(j)

\* the server with a store whose calls may raise inside a background task:
\* every call returns or raises, so a handler that has read the record goes
\* on to save it and a task that was added goes on step by step to its end
NextSessionFair ==
    \/ generate_story
    \/ generate_book_get
    \/ generate_book_save
    \/ run_book_generation
    \/ store_raises

SpecSessionFair ==
    /\ InitSession
    /\ [][NextSessionFair]_vars
    /\ WF_vars(generate_book_save)
    /\ \A j \in 1..MaxJobs : WF_vars(JobStep(j))

\* the records generate_story and then generate_book leave in the store
\* when the configuration is complete
PendingSessions ==
    {("status" :> "pending")
     @@ NewSession(UserInputAgentRun(RequestParams(req), rnd),
                   StoryGeneratorAgentRun(UserInputAgentRun(RequestParams(req), rnd),
                                          "ok", scall),
                   StoryElementsAgentRun("ok", ecall)) :
        req \in BookRequests, rnd \in ApiChoices,
        scall \in ApiStoryCalls,
        ecall \in ApiElementCalls}

\* two sessions, a generate-book request accepted for each, and the two
\* background tasks not yet started
InitTwoJobs ==
    /\ raised = NoExc
    /\ params = <<>>
    /\ processed = Absent
    /\ setting_from = ""
    /\ story = Absent
    /\ memory = <<>>
    /\ elements = <<>>
    /\ paras = <<>>
    /\ elem_call = NoCall
    /\ desc_calls = <<>>
    /\ contexts = <<>>
    /\ prompts = <<>>
    /\ images = <<>>
    /\ ig_i = 0
    /\ ig_attempt = 0
    /\ ig_hist = <<>>
    /\ tmpfiles = <<>>
    /\ artifact = <<>>
    /\ pages = <<>>
    /\ pc = "serving"
    /\ env = "ok"
    /\ reportlab = TRUE
    /\ \E s1 \in PendingSessions, s2 \in PendingSessions :
          sessions = (1 :> s1) @@ (2 :> s2)
    /\ jobs = <<NewJob(1), NewJob(2)>>
    /\ gb = [stage |-> "idle", sid |-> 0, session |-> <<>>]
    /\ blobs = <<>>
    /\ response = Answer("generate_book", 2,
                         ("session_id" :> 2) @@ ("status" :> "pending"))

NextTwoJobs == run_book_generation

SpecTwoJobs == InitTwoJobs /\ [][NextTwoJobs]_vars

------------------------------------------------------------------------------
(* Claims about the parameter resolver and the story generator             *)

Populated(v) == v # Absent /\ v # None

\* UserInputAgent.run has returned its record
HasProcessed == "user_params" \in DOMAIN memory

\* the keys every resolved record must carry
RequiredKeys == {"character_name", "animal", "gender", "age", "setting",
                 "voice", "length", "pronoun_subject", "pronoun_object",
                 "pronoun_possessive"}

He == [pronoun_subject |-> <<"he">>, pronoun_object |-> <<"him">>,
       pronoun_possessive |-> <<"his">>]
She == [pronoun_subject |-> <<"she">>, pronoun_object |-> <<"her">>,
        pronoun_possessive |-> <<"her">>]

PronounsOf(r) == [k \in DOMAIN He |-> r[k]]

\* the story is the mock story of the except branch
IsMock(s) ==
    /\ s # Absent
    /\ Len(s) >= Len(MockTail)
    /\ SubSeq(s, Len(s) - Len(MockTail) + 1, Len(s)) = MockTail

\* C5: StoryGeneratorAgent.run, given any record the resolver produced,
\* returns a non-empty story for every outcome of the remote call and stores
\* that string in memory["story"]: it never raises.
C5_StoryNeverEmpty ==
    /\ pc = "raised" => raised.by # "StoryGeneratorAgent"
    /\ pc = "elements" =>
          /\ story # Absent /\ story # <<>>
          /\ "story" \in DOMAIN memory /\ memory["story"] = story

\* C6: when the remote call fails, the story embeds the resolved setting,
\* the animal in lower case, and the custom-elements text when the record
\* has one, the phrase "a moral lesson" when it has none.
C6_MockStoryEmbeds ==
    (pc = "elements" /\ IsMock(story)) =>
        /\ Contains(story, Fmt(processed.setting))
        /\ Contains(story, Lower(processed.animal))
        /\ IF Truthy(processed.custom_elements)
           THEN Contains(story, processed.custom_elements)
           ELSE Contains(story, MoralLesson)

\* C7: UserInputAgent.run never raises and returns a record whose required
\* fields are all present and non-null, with he/him/his exactly when the
\* resolved gender is "male" and she/her/her otherwise.
C7_ResolverTotal ==
    /\ pc = "raised" => raised.by # "UserInputAgent"
    /\ HasProcessed =>
          /\ \A k \in RequiredKeys : Populated(processed[k])
          /\ IF processed.gender = <<"m","a","l","e">>
             THEN PronounsOf(processed) = He
             ELSE PronounsOf(processed) = She

\* What Python's re.search finds in each custom-elements input: the text
\* after "in ", "at " or "on ", stripped; Absent when the pattern is not in it.
ExpectedPhrase(c) ==
    IF c = InTheZoo THEN <<"t","h","e"," ","z","o","o">>
    ELSE IF c = AtTheZoo THEN <<"t","h","e"," ","Z","o","o">>
    ELSE Absent

\* C8: a supplied non-empty setting is returned verbatim whatever
\* custom_elements and randomize_all are; otherwise a setting phrase of
\* custom_elements gives the setting; the setting is drawn from the
\* candidate list only when neither gives one.
C8_SettingPrecedence ==
    HasProcessed =>
        /\ Truthy(params.setting) =>
              processed.setting = params.setting /\ setting_from = "explicit"
        /\ (~Truthy(params.setting)
              /\ ExpectedPhrase(params.custom_elements) # Absent) =>
              /\ processed.setting = ExpectedPhrase(params.custom_elements)
              /\ setting_from = "custom"
        /\ setting_from = "random" =>
              /\ ~Truthy(params.setting)
              /\ ExpectedPhrase(params.custom_elements) = Absent
              /\ processed.setting \in DEFAULTS.setting

\* an explicit setting won over a phrase in custom_elements and over
\* randomize_all
C8_Witness ==
    /\ pc = "story"
    /\ params.setting = Zoo
    /\ params.custom_elements = AtTheZoo
    /\ params.randomize_all
    /\ processed.setting = Zoo

------------------------------------------------------------------------------
(* Claims about the element extractor                                      *)

\* some part of the response holds a well-formed object that gives the
\* field a non-empty string
Extractable(e, call, key) ==
    /\ ~ConfigRaises(e)
    /\ call.kind = "parts"
    /\ \E n \in 1..Len(call.parts) :
          LET part == call.parts[n]
          IN \E a \in 1..Len(part), b \in 1..Len(part) :
                /\ a < b
                /\ JsonObjectOk(SubSeq(part, a, b))
                /\ Truthy(JsonGet(SubSeq(part, a, b), key))

\* C11: StoryElementsAgent.run never raises; for every outcome of the remote
\* call and of parsing it returns (and stores in memory) a character and a
\* setting that are non-empty, each being the generic placeholder whenever
\* the field could not be extracted from the response.
C11_ElementsNeverFail ==
    /\ pc # "raised"
    /\ pc = "coherence" =>
          /\ \A key \in {"character", "setting"} :
                /\ Truthy(elements[key])
                /\ key \in DOMAIN memory /\ memory[key] = elements[key]
                /\ ~Extractable(env, elem_call, key) =>
                      elements[key] = GenericElements[key]

\* a response whose object names a setting and no character: the setting is
\* extracted and the character is the placeholder
C11_Witness ==
    /\ pc = "coherence"
    /\ env = "ok"
    /\ elem_call = TextCall("parts", <<ObjHill>>)
    /\ elements.character = GenericElements.character
    /\ elements.setting = <<"H","i","l","l">>

\* the first well-formed object of a text: the one that starts first;
\* <<>> when the text holds none
FirstObject(t) ==
    LET Ends(a) == {b \in (a + 1)..Len(t) : JsonObjectOk(SubSeq(t, a, b))}
        starts == {a \in 1..Len(t) : Ends(a) # {}}
    IN IF starts = {} THEN <<>>
       ELSE LET a == CHOOSE x \in starts : \A y \in starts : x <= y
            IN SubSeq(t, a, CHOOSE b \in Ends(a) : \A c \in Ends(a) : b <= c)

\* the fields of the first well-formed object of the response text, the
\* placeholder standing for a field it does not give
FirstObjectElements(call) ==
    LET obj == FirstObject(Concat(call.parts))
        Field(key) == IF obj # <<>> /\ Truthy(JsonGet(obj, key))
                      THEN JsonGet(obj, key) ELSE GenericElements[key]
    IN [character |-> Field("character"), setting |-> Field("setting")]

\* C16: StoryElementsAgent.run takes character and setting from the first
\* well-formed JSON object of the response text: prose before or after it,
\* prose with braces included, and later objects in later parts of the
\* response do not change the values.
C16_FirstObjectWins ==
    (pc = "coherence" /\ env = "ok" /\ elem_call.kind = "parts") =>
        elements = FirstObjectElements(elem_call)

------------------------------------------------------------------------------
(* Claims about the scene and prompt splitter                              *)

\* the paragraphs that are not blank, stripped, in order
ExpectedScenes(ps) == SelectSeq([k \in 1..Len(ps) |-> Strip(ps[k])], NonBlank)

\* the remote call of scene k gave no description
DescFailed(k) ==
    \/ env # "ok"
    \/ desc_calls[k].kind # "parts"
    \/ Concat(desc_calls[k].parts) = <<>>

\* C9: for a story with N non-empty blank-line-separated paragraphs,
\* CoherenceAgent.run stores N scenes and returns N prompts; scene k is the
\* k-th non-empty paragraph, the request of scene k is made for that scene,
\* and prompt k is the style block followed by the description obtained for
\* scene k, the generic description when the call failed.
C9_ScenesAndPrompts ==
    pc = "illustrate" =>
        LET expected == ExpectedScenes(paras)
        IN /\ "scenes" \in DOMAIN memory /\ memory["scenes"] = expected
           /\ "prompts" \in DOMAIN memory /\ memory["prompts"] = prompts
           /\ Len(prompts) = Len(expected)
           /\ Len(contexts) = Len(expected)
           /\ \A k \in 1..Len(expected) :
                /\ Contains(contexts[k], <<"Scene: ">> \o expected[k] \o <<"\n">>)
                /\ prompts[k] = StyleInfo \o
                      (IF DescFailed(k) THEN GenericDesc
                       ELSE Strip(Concat(desc_calls[k].parts)))

\* two scenes survive out of a story with a blank paragraph between them, the
\* call of the first failed and the call of the second gave a description
C9_Witness ==
    /\ pc = "illustrate"
    /\ Len(paras) = 3 /\ Strip(paras[2]) = <<>>
    /\ Len(memory["scenes"]) = 2
    /\ env = "ok"
    /\ desc_calls[1].kind = "http"
    /\ prompts[2] = StyleInfo \o DescText

------------------------------------------------------------------------------
(* Claims about the illustration generator                                 *)

IsRequest(ev) == ev # "sleep"

\* the outcomes of the requests made for prompt k (counted from 1)
Requests(k) == SelectSeq(ig_hist[k], IsRequest)

\* the handling of prompt k is over
PromptDone(k) == k <= ig_i

Elems(q) == {q[k] : k \in 1..Len(q)}

\* C1: for any list of N prompts and any outcome of each image request,
\* IllustrationGeneratorAgent.run returns exactly N references, the k-th
\* being illustration_k.png or mock_image_k.png of the k-th prompt.
C1_OneReferencePerPrompt ==
    pc = "assemble" =>
        /\ Len(images) = Len(prompts)
        /\ \A k \in 1..Len(images) : images[k] \in {FileRef(k - 1), MockRef(k - 1)}

\* C2: a request answered with HTTP 429 is retried once after the delay,
\* and when the retry fails too, a second 429 included, the placeholder
\* mock_image_i.png is recorded for the prompt.
C2_Retry429ThenPlaceholder ==
    \A k \in 1..Len(ig_hist) :
        (PromptDone(k) /\ Requests(k)[1] = "e429") =>
            /\ SubSeq(ig_hist[k], 1, 2) = <<"e429", "sleep">>
            /\ Len(Requests(k)) = 2
            /\ ~Saved(Requests(k)[2]) => MockRef(k - 1) \in Elems(images)

\* C15: at most two image requests are issued for a prompt; a second one
\* only when the first did not return an image, and only after the delay
\* that follows the failed request; no request follows one that returned an
\* image.
C15_AtMostTwoRequests ==
    /\ Len(ig_hist) <= Len(prompts)
    /\ \A k \in 1..Len(ig_hist) :
          /\ Len(Requests(k)) \in {1, 2}
          /\ IsRequest(ig_hist[k][1])
          /\ Len(Requests(k)) = 2 =>
                /\ ~Saved(ig_hist[k][1])
                /\ ig_hist[k][2] = "sleep"
                /\ IsRequest(ig_hist[k][3])
          /\ \A n \in 1..Len(ig_hist[k]) :
                Saved(ig_hist[k][n]) =>
                    \A m \in (n + 1)..Len(ig_hist[k]) : ~IsRequest(ig_hist[k][m])

\* the run has returned: the first prompt got its image at once, the second
\* after a failed request
C15_Witness ==
    /\ pc = "assemble"
    /\ Len(ig_hist) = 2
    /\ ig_hist[1] = <<"image", "sleep">>
    /\ ig_hist[2] = <<"http", "sleep", "image", "sleep">>

\* C4: in BookCreationWorkflow.run, whatever remote calls fail (missing
\* project configuration, credential failure, network error, rate limit,
\* malformed or empty response), no stage before the book assembler raises:
\* an exception that leaves the run comes from BookAssemblerAgent.
C4_OnlyAssemblerRaises ==
    pc = "raised" => raised.by = "BookAssemblerAgent"

------------------------------------------------------------------------------
(* Claims about the sessions                                               *)

\* the status of a stored session: "created" before generate-book sets one
StatusOf(session) ==
    IF "status" \in DOMAIN session THEN session["status"] ELSE "created"

\* C3: under every sequence of generate-story, generate-book, book-status
\* and download-book calls a session's status only moves created -> pending
\* -> (done | error), and once it is done or error no step changes the
\* status or any other field of the session record.
C3_StatusOneWay ==
    [][\A sid \in DOMAIN sessions :
          LET a == StatusOf(sessions[sid])
              b == StatusOf(sessions'[sid])
          IN /\ a = "created" => b \in {"created", "pending"}
             /\ a = "pending" => b \in {"pending", "done", "error"}
             /\ a \in {"done", "error"} => sessions'[sid] = sessions[sid]]_vars

\* the handlers that look a session up
Lookups == {"generate_book", "book_status", "download_book"}

\* C12: generate-book, book-status and download-book called with a session
\* id that has no stored session each return the "Session not found" value
\* and leave the session store unchanged: no session is created or modified
\* and no background job is scheduled.
C12_MissingSessionNotFound ==
    [][(response' # response /\ response'.op \in Lookups
          /\ ~SessionExists(sessions, response'.sid)) =>
          /\ response'.body = SessionNotFound
          /\ sessions' = sessions
          /\ jobs' = jobs
          /\ gb' = gb]_vars

\* download-book has answered "Session not found" for an id that names no
\* session while another session is stored and its job is running
C12_Witness ==
    /\ response.op = "download_book"
    /\ ~SessionExists(sessions, response.sid)
    /\ "error" \in DOMAIN response.body
    /\ response.body = SessionNotFound
    /\ DOMAIN sessions # {}
    /\ \E j \in 1..Len(jobs) : jobs[j].stage = "started"

\* the context blocks BookCreationWorkflow.run builds for a resolved record,
\* a story and the elements extracted from it: StoryElementsAgent.run has
\* put the elements into the memory CoherenceAgent.run reads
WorkflowContexts(proc, st, el) ==
    LET mem == ("character" :> el.character) @@ ("setting" :> el.setting)
               @@ ("story" :> st) @@ ("user_params" :> proc)
        scenes == SplitScenes(st)
    IN [k \in 1..Len(scenes) |->
           SceneContext(AnimalOf(proc), MemorySetting(mem), scenes[k])]

\* C14: the background job and BookCreationWorkflow.run agree on the scene
\* context: the context blocks a job has built from a session are the ones
\* the workflow builds from the same story, parameters and elements, so the
\* setting stored in the session is the one named in each block.
C14_JobUsesStoredSetting ==
    \A j \in 1..Len(jobs) :
        jobs[j].stage \in {"generated", "uploaded", "failed", "finished"}
        /\ jobs[j].contexts # <<>> =>
            jobs[j].contexts = WorkflowContexts(jobs[j].session["params"],
                                                jobs[j].session["story"],
                                                jobs[j].session["elements"])

\* C18: when the jobs of two different sessions run concurrently, no job
\* overwrites or deletes the temporary files of the other: from the moment
\* a job has written its PDF and illustrations until it has uploaded them,
\* each of these files exists with the content the job gave it, and what
\* the job has uploaded under books/<its session id>/ is what it generated.
C18_JobsKeepOwnFiles ==
    \A j \in 1..Len(jobs) :
        /\ jobs[j].stage = "generated" =>
              \A r \in DOMAIN jobs[j].generated :
                  /\ r \in DOMAIN tmpfiles
                  /\ tmpfiles[r] = jobs[j].generated[r]
        /\ jobs[j].stage = "uploaded" =>
              LET paths == UploadPaths(jobs[j].illustrations)
              IN \A k \in 1..Len(paths) :
                    /\ paths[k] \in DOMAIN jobs[j].generated
                    /\ GcsPath(jobs[j].sid, UploadName(k)) \in DOMAIN blobs
                    /\ blobs[GcsPath(jobs[j].sid, UploadName(k))]
                          = jobs[j].generated[paths[k]]

\* C19: a placeholder illustration does not fail the book: a job whose
\* illustrations hold a placeholder and whose PDF was rendered and uploaded
\* does not take the except branch because of the placeholder, so it ends
\* with status done unless something else fails.
C19_PlaceholderDoesNotFail ==
    \A j \in 1..Len(jobs) :
        (/\ \E k \in 1..Len(jobs[j].illustrations) :
                jobs[j].illustrations[k].kind = "mock"
         /\ GcsPath(jobs[j].sid, PdfRef) \in DOMAIN blobs
         /\ jobs[j].stage \in {"failed", "finished"}) =>
            /\ jobs[j].failed_at.kind # "mock"
            /\ (jobs[j].failed_at = NoRef /\ jobs[j].stage = "finished") =>
                  StatusOf(sessions[jobs[j].sid]) \in {"done", "pending"}

\* C20: every accepted generate-book request is eventually resolved: when
\* every stage, upload and store call returns or raises and every scheduled
\* task is run, a session whose status is pending eventually has status
\* done or error, so the status is not pending forever after the last
\* accepted request.
C20_EventuallyResolved ==
    \A sid \in 1..MaxSessions :
        (sid \in DOMAIN sessions /\ StatusOf(sessions[sid]) = "pending")
        ~> (sid \in DOMAIN sessions
            /\ StatusOf(sessions[sid]) \in {"done", "error"})

\* C21: book-status answers pending for a session only while a background
\* job of that session is scheduled or running and has not yet written its
\* result: never for a session that has no such job.
C21_PendingOnlyWithJob ==
    [][(/\ response' # response
        /\ response'.op = "book_status"
        /\ "status" \in DOMAIN response'.body
        /\ response'.body["status"] = "pending") =>
            \E j \in 1..Len(jobs) :
                /\ jobs[j].sid = response'.sid
                /\ jobs[j].stage \in {"scheduled", "started", "generated",
                                      "uploaded", "failed"}]_vars

\* the fields lines 134-137 put into the session dictionary
ResultFields ==
    {"book_filename", "illustration_paths", "pdf_url", "illustration_urls"}

\* C22: in every state of the store a record with status done carries
\* pdf_url, book_filename and illustration_urls, one URL per illustration
\* reference, and a record with status error carries an error_message; and
\* a job that fails leaves no result field of its own run in the record: the
\* result fields of the record it saves with status error are those of the
\* record it had read.
C22_RecordsConsistent ==
    /\ [](\A sid \in DOMAIN sessions :
            LET rec == sessions[sid]
            IN /\ StatusOf(rec) = "done" =>
                     /\ ResultFields \subseteq DOMAIN rec
                     /\ Len(rec["illustration_urls"])
                           = Len(rec["illustration_paths"])
               /\ StatusOf(rec) = "error" => "error_message" \in DOMAIN rec)
    /\ [][\A j \in 1..Len(jobs) :
            (/\ jobs[j].stage \in {"uploaded", "failed"}
             /\ jobs'[j].stage = "finished"
             /\ StatusOf(sessions'[jobs[j].sid]) = "error") =>
                \A key \in ResultFields :
                    key \in DOMAIN sessions'[jobs[j].sid] =>
                        /\ key \in DOMAIN jobs[j].read
                        /\ sessions'[jobs[j].sid][key] = jobs[j].read[key]]_vars

\* the jobs of a session that have read the record and not yet ended
Active == {"started", "generated", "uploaded", "failed"}

\* C13: no lock keeps a session to one producer. generate_book never
\* refuses a stored session, whatever its status: it reads the record,
\* saves it with status pending, schedules one more job and answers
\* pending; and a job that ends normally replaces the stored record with
\* its own snapshot. So two jobs of one session can be active at once and
\* both write the record.
C13_NoSingleProducerLock ==
    [][/\ (response' # response /\ response'.op = "generate_book"
            /\ SessionExists(sessions, response'.sid)) =>
              /\ "status" \in DOMAIN response'.body
              /\ response'.body["status"] = "pending"
       /\ (gb.stage = "idle" /\ gb'.stage = "got") =>
              /\ gb'.session = sessions[gb'.sid]
              /\ sessions' = sessions
       /\ (gb.stage = "got" /\ gb'.stage = "idle") =>
              /\ StatusOf(sessions'[gb.sid]) = "pending"
              /\ jobs' = Append(jobs, NewJob(gb.sid))
       /\ \A j \in 1..Len(jobs) :
              (jobs[j].stage \in Active /\ jobs'[j].stage = "finished") =>
                  /\ StatusOf(sessions'[jobs[j].sid]) \in {"done", "error"}
                  /\ \A key \in {"params", "story", "elements"} :
                        sessions'[jobs[j].sid][key] = jobs[j].session[key]
                  /\ DOMAIN jobs[j].session \subseteq
                        DOMAIN sessions'[jobs[j].sid]]_vars

\* two jobs of the same session, the second scheduled while the status was
\* pending, are both about to write the record
C13_Witness ==
    /\ Len(jobs) = 2
    /\ jobs[1].sid = jobs[2].sid
    /\ jobs[1].stage = "uploaded"
    /\ jobs[2].stage = "failed"
    /\ StatusOf(jobs[2].session) = "pending"
    /\ StatusOf(sessions[jobs[1].sid]) = "pending"

------------------------------------------------------------------------------
(* Claims about the book assembler                                         *)

\* the words of the lines of a page, in order
RECURSIVE WordsOfLines(_)
WordsOfLines(ls) ==
    IF ls = <<>> THEN <<>> ELSE SplitWords(Head(ls)) \o WordsOfLines(Tail(ls))

\* the illustration reference can be drawn: it names an existing, readable
\* .png file
Drawable(ref) ==
    /\ ref.kind = "illustration"
    /\ ref \in DOMAIN tmpfiles
    /\ tmpfiles[ref].readable

\* C10: given scenes and illustrations of equal length L,
\* BookAssemblerAgent.run emits L+1 pages, a title page then one page per
\* scene in order with scene k paired with illustration k, and draws a text
\* line in place of an illustration that is missing, no existing file, no
\* .png or unreadable, instead of raising.
C10_PagesAndPlaceholders ==
    /\ (pc = "raised" /\ raised.by = "BookAssemblerAgent") => ~reportlab
    /\ pc = "done" =>
          LET scenes == memory["scenes"]
          IN /\ Len(pages) = Len(scenes) + 1
             /\ pages[1].kind = "title"
             /\ \A k \in 1..Len(scenes) :
                   /\ pages[k + 1].kind = "scene"
                   /\ pages[k + 1].number = k
                   /\ WordsOfLines(pages[k + 1].lines) = SplitWords(scenes[k])
                   /\ pages[k + 1].ref = images[k]
                   /\ IF Drawable(images[k])
                      THEN pages[k + 1].picture = "image"
                      ELSE pages[k + 1].picture \in {"placeholder", "failed"}

\* C17: the word-wrap loop gives, for any scene text, lines that each fit
\* the content width and are not empty, and the words of the lines read in
\* order are the words of the scene in order.
C17_WrappedLinesFit ==
    pc = "done" =>
        \A k \in 1..Len(memory["scenes"]) :
            LET lines == pages[k + 1].lines
            IN /\ \A n \in 1..Len(lines) :
                     /\ lines[n] # <<>>
                     /\ StringWidth(lines[n]) <= MaxTextWidth
               /\ WordsOfLines(lines) = SplitWords(memory["scenes"][k])

\* a book of two scenes whose first illustration is the placeholder name and
\* whose second is an unreadable file
C10_Witness ==
    /\ pc = "done"
    /\ Len(pages) = 3
    /\ images[1] = MockRef(0) /\ pages[2].picture = "placeholder"
    /\ images[2] = FileRef(1) /\ pages[3].picture = "failed"

====
